---- MODULE Spec2Model ----
(***************************************************************************)
(* Model of app.py, the Streamlit unit converter.                          *)
(*                                                                         *)
(* Streamlit executes the script from top to bottom once per user          *)
(* interaction.  Each action below is one such execution: the credential   *)
(* check (lines 10-17), the widgets (lines 41-57) and, when the Convert    *)
(* button was pressed, the handler (lines 132-145).                        *)
(*                                                                         *)
(* Numbers are exact rationals [n, d] with d > 0 in lowest terms; the      *)
(* float rounding of the interpreter is abstracted to exact arithmetic.    *)
(* Strings that the code only passes around (unit names, fixed messages)   *)
(* are TLA+ strings; the response text, which the code trims and tests for *)
(* emptiness, is a sequence of characters.                                 *)
(***************************************************************************)
EXTENDS Integers, Sequences, FiniteSets, TLC

VARIABLES
    api_key,            \* TRUE iff os.getenv("GEMINI_API_KEY") is non-empty
    pc,                 \* "start" | "rendered" | "stopped"
    unit_type,          \* sidebar selectbox "Select Unit Type"
    input_value,        \* sidebar number_input "Enter Value"
    from_unit,          \* sidebar selectbox "From"
    to_unit,            \* sidebar selectbox "To"
    conversion_factors, \* the dictionary manual_conversion looks the key up in
    button,             \* TRUE iff the last execution was a Convert click
    calls,              \* calls made during the last execution, in order
    messages            \* st.error / st.warning / st.success of the last execution

vars == <<api_key, pc, unit_type, input_value, from_unit, to_unit,
          conversion_factors, button, calls, messages>>

----------------------------------------------------------------------------
(* Bounds of the model *)

\* values 0 .. MaxValue and their halves are entered, next to 100
MaxValue == 1

\* longest response text of the remote service
MaxTextLen == 2

----------------------------------------------------------------------------
(* Exact rational arithmetic *)

Abs(i) == IF i < 0 THEN -i ELSE i

RECURSIVE GCD(_, _)
GCD(a, b) == IF b = 0 THEN a ELSE GCD(b, a % b)

Rat(n, d) ==
    LET g == GCD(Abs(n), d)
    IN  [kind |-> "float", n |-> n \div g, d |-> d \div g]

\* python float * float
Mul(x, y) ==
    LET g1 == GCD(Abs(x.n), y.d)
        g2 == GCD(Abs(y.n), x.d)
    IN  [kind |-> "float",
         n |-> (x.n \div g1) * (y.n \div g2),
         d |-> (x.d \div g2) * (y.d \div g1)]

\* Div with the integer division of `int / int`
DivFloor(x, y) ==
    IF x.d = 1 /\ y.d = 1 /\ y.n > 0
    THEN [kind |-> "float", n |-> x.n \div y.n, d |-> 1]
    ELSE Mul(x, [kind |-> "float", n |-> y.d, d |-> y.n])

\* python float / float, y # 0
Div(x, y) ==
    IF y.n < 0 THEN Mul(x, [kind |-> "float", n |-> -y.d, d |-> -y.n])
               ELSE Mul(x, [kind |-> "float", n |-> y.d, d |-> y.n])

\* python float + float
Add(x, y) == Rat(x.n * y.d + y.n * x.d, x.d * y.d)

\* python float - float
Sub(x, y) == Rat(x.n * y.d - y.n * x.d, x.d * y.d)

Num(i) == [kind |-> "float", n |-> i, d |-> 1]

\* python None
None == [kind |-> "None"]

----------------------------------------------------------------------------
(* The widgets' option lists *)

UnitTypes ==
    <<"Length", "Weight", "Temperature", "Speed", "Time", "Area", "Volume">>

conversion_units ==
    [t \in {UnitTypes[i] : i \in DOMAIN UnitTypes} |->
        CASE t = "Length" ->
               <<"Meters", "Kilometers", "Miles", "Feet", "Inches", "Yards",
                 "Centimeters", "Millimeters">>
          [] t = "Weight" ->
               <<"Kilograms", "Grams", "Pounds", "Ounces", "Tonnes">>
          [] t = "Temperature" -> <<"Celsius", "Fahrenheit", "Kelvin">>
          [] t = "Speed" ->
               <<"Meters per second", "Kilometers per hour", "Miles per hour">>
          [] t = "Time" -> <<"Seconds", "Minutes", "Hours", "Days", "Weeks">>
          [] t = "Area" ->
               <<"Square meters", "Square kilometers", "Square feet", "Acres",
                 "Hectares", "Square miles">>
          [] t = "Volume" ->
               <<"Liters", "Milliliters", "Gallons", "Cubic meters">>]

UnitsOf(t) == {conversion_units[t][i] : i \in DOMAIN conversion_units[t]}

\* number_input(min_value=0.0): the values a user enters
Values ==
    {Rat(k, 2) : k \in 0..(2 * MaxValue)} \cup {Num(100)}

----------------------------------------------------------------------------
(* manual_conversion *)

\* a decimal literal such as 1.60934 == Dec(160934, 100000)
Dec(digits, scale) == Rat(digits, scale)

\* a lambda of the dictionary
Lambda(name) == [kind |-> "function", name |-> name]

\* the dictionary literal of manual_conversion
ConversionFactors ==
    ("Meters_Kilometers" :> Dec(1, 1000)) @@
    ("Kilometers_Meters" :> Num(1000)) @@
    ("Miles_Kilometers" :> Dec(160934, 100000)) @@
    ("Kilometers_Miles" :> Div(Num(1), Dec(160934, 100000))) @@
    ("Feet_Meters" :> Dec(3048, 10000)) @@
    ("Meters_Feet" :> Div(Num(1), Dec(3048, 10000))) @@
    ("Inches_Feet" :> Div(Num(1), Num(12))) @@
    ("Feet_Inches" :> Num(12)) @@
    ("Yards_Meters" :> Dec(9144, 10000)) @@
    ("Meters_Yards" :> Div(Num(1), Dec(9144, 10000))) @@
    ("Kilograms_Grams" :> Num(1000)) @@
    ("Grams_Kilograms" :> Div(Num(1), Num(1000))) @@
    ("Kilograms_Pounds" :> Dec(220462, 100000)) @@
    ("Pounds_Kilograms" :> Div(Num(1), Dec(220462, 100000))) @@
    ("Ounces_Grams" :> Dec(283495, 10000)) @@
    ("Grams_Ounces" :> Div(Num(1), Dec(283495, 10000))) @@
    ("Celsius_Fahrenheit" :> Lambda("Celsius_Fahrenheit")) @@
    ("Fahrenheit_Celsius" :> Lambda("Fahrenheit_Celsius")) @@
    ("Celsius_Kelvin" :> Lambda("Celsius_Kelvin")) @@
    ("Kelvin_Celsius" :> Lambda("Kelvin_Celsius")) @@
    ("Meters per second_Kilometers per hour" :> Dec(36, 10)) @@
    ("Kilometers per hour_Meters per second" :> Div(Num(1), Dec(36, 10))) @@
    ("Miles per hour_Kilometers per hour" :> Dec(160934, 100000)) @@
    ("Kilometers per hour_Miles per hour" :> Div(Num(1), Dec(160934, 100000))) @@
    ("Seconds_Minutes" :> Div(Num(1), Num(60))) @@
    ("Minutes_Seconds" :> Num(60)) @@
    ("Minutes_Hours" :> Div(Num(1), Num(60))) @@
    ("Hours_Minutes" :> Num(60)) @@
    ("Hours_Days" :> Div(Num(1), Num(24))) @@
    ("Days_Hours" :> Num(24)) @@
    ("Weeks_Days" :> Num(7)) @@
    ("Days_Weeks" :> Div(Num(1), Num(7))) @@
    ("Square meters_Square kilometers" :> Div(Num(1), Num(1000000))) @@
    ("Square kilometers_Square meters" :> Num(1000000)) @@
    ("Square feet_Square meters" :> Dec(92903, 1000000)) @@
    ("Square meters_Square feet" :> Div(Num(1), Dec(92903, 1000000))) @@
    ("Acres_Square meters" :> Dec(404686, 100)) @@
    ("Square meters_Acres" :> Div(Num(1), Dec(404686, 100))) @@
    ("Hectares_Square meters" :> Num(10000)) @@
    ("Square meters_Hectares" :> Div(Num(1), Num(10000))) @@
    ("Square miles_Square kilometers" :> Dec(258999, 100000)) @@
    ("Square kilometers_Square miles" :> Div(Num(1), Dec(258999, 100000))) @@
    ("Liters_Milliliters" :> Num(1000)) @@
    ("Milliliters_Liters" :> Div(Num(1), Num(1000))) @@
    ("Liters_Gallons" :> Dec(264172, 1000000)) @@
    ("Gallons_Liters" :> Div(Num(1), Dec(264172, 1000000))) @@
    ("Liters_Cubic meters" :> Dec(1, 1000)) @@
    ("Cubic meters_Liters" :> Num(1000))

\* CallLambda with the offsets dropped: the rule used as a factor
CallLambdaScaleOnly(f, x) ==
    CASE f.name = "Celsius_Fahrenheit" -> Mul(x, [kind |-> "float", n |-> 9, d |-> 5])
      [] f.name = "Fahrenheit_Celsius" -> Mul(x, [kind |-> "float", n |-> 5, d |-> 9])
      [] f.name = "Celsius_Kelvin" -> x
      [] f.name = "Kelvin_Celsius" -> x

\* the bodies of the four lambdas
CallLambda(f, x) ==
    CASE f.name = "Celsius_Fahrenheit" ->
           Add(Div(Mul(x, Num(9)), Num(5)), Num(32))
      [] f.name = "Fahrenheit_Celsius" ->
           Div(Mul(Sub(x, Num(32)), Num(5)), Num(9))
      [] f.name = "Celsius_Kelvin" -> Add(x, Dec(27315, 100))
      [] f.name = "Kelvin_Celsius" -> Sub(x, Dec(27315, 100))

callable(factor) == factor.kind = "function"

\* f"{from_unit}_{to_unit}"
Key(f, t) == f \o "_" \o t

\* lines 114-118, against the dictionary `table`
Lookup(table, value, f, t) ==
    LET key == Key(f, t)
    IN  IF key \in DOMAIN table
        THEN LET factor == table[key]
             IN  IF callable(factor) THEN CallLambda(factor, value)
                                     ELSE Mul(value, factor)
        ELSE None

\* manual_conversion that goes through an intermediate unit when the pair
\* is missing
manual_conversion_chained(value, f, t) ==
    LET table == conversion_factors
        via == {m \in UNION {UnitsOf(ty) : ty \in DOMAIN conversion_units} :
                   /\ Key(f, m) \in DOMAIN table
                   /\ Key(m, t) \in DOMAIN table}
    IN  IF Key(f, t) \in DOMAIN table \/ via = {}
        THEN Lookup(table, value, f, t)
        ELSE LET m == CHOOSE u \in via : TRUE
             IN  Lookup(table, Lookup(table, value, f, m), m, t)

\* lines 62-118: the dictionary is the one of lines 63-112
manual_conversion(value, f, t) == Lookup(conversion_factors, value, f, t)

----------------------------------------------------------------------------
(* Streamlit output and the call log *)

St(level, text, args) == [level |-> level, text |-> text, args |-> args]

Call(fn, args, ret) == [fn |-> fn, args |-> args, ret |-> ret]

\* f"{x:.2f}": the number under its format specification.  Which hundredth
\* a decimal tie goes to depends on the float's rounding error, which the exact
\* arithmetic above does not carry, so the rendering is kept symbolic.
Format2f(x) == [spec |-> ".2f", value |-> x]

----------------------------------------------------------------------------
(* gemini_conversion *)

Chars == {" ", "\n", "7"}

Whitespace == {" ", "\n"}

\* the response texts of the remote service
Texts == UNION {[1..n -> Chars] : n \in 0..MaxTextLen}

\* what model.generate_content(prompt) / response.text does: raise, or a text
RemoteOutcomes ==
    {[fault |-> TRUE]} \cup {[fault |-> FALSE, text |-> t] : t \in Texts}

RECURSIVE lstrip(_)
lstrip(s) ==
    IF s # <<>> /\ Head(s) \in Whitespace THEN lstrip(Tail(s)) ELSE s

RECURSIVE rstrip(_)
rstrip(s) ==
    IF s # <<>> /\ s[Len(s)] \in Whitespace
    THEN rstrip(SubSeq(s, 1, Len(s) - 1))
    ELSE s

\* str.strip()
strip(s) == rstrip(lstrip(s))

Str(chars) == [kind |-> "str", chars |-> chars]

\* a piece of text inside an f-string
Part(s) == [kind |-> "text", s |-> s]

\* line 123: the f-string's pieces, in order
Prompt(value, f, t) ==
    <<Part("Convert "), value, Part(" "), Part(f), Part(" to "), Part(t),
      Part(". Provide only the numerical result.")>>

\* an exception raised by the remote call
Raised == [kind |-> "raise"]

\* gemini_conversion that calls the service again after a fault
gemini_conversion_retry(value, f, t, outcome) ==
    LET prompt == Prompt(value, f, t)
    IN  IF outcome.fault
        THEN [ret      |-> None,
              calls    |-> <<Call("generate_content", <<prompt>>, Raised),
                             Call("generate_content", <<prompt>>, Raised)>>,
              messages |-> <<St("error", "Gemini AI Error: ", <<"e">>)>>]
        ELSE [ret      |-> Str(strip(outcome.text)),
              calls    |-> <<Call("generate_content", <<prompt>>,
                                  Str(outcome.text))>>,
              messages |-> <<>>]

\* gemini_conversion that answers "7" after a fault
gemini_conversion_swallow(value, f, t, outcome) ==
    LET prompt == Prompt(value, f, t)
    IN  IF outcome.fault
        THEN [ret      |-> Str(<<"7">>),
              calls    |-> <<Call("generate_content", <<prompt>>, Raised)>>,
              messages |-> <<>>]
        ELSE [ret      |-> Str(strip(outcome.text)),
              calls    |-> <<Call("generate_content", <<prompt>>,
                                  Str(outcome.text))>>,
              messages |-> <<>>]

\* lines 121-129; outcome is what the remote call does with the prompt
gemini_conversion(value, f, t, outcome) ==
    LET prompt == Prompt(value, f, t)
    IN  IF outcome.fault
        THEN [ret      |-> None,
              calls    |-> <<Call("generate_content", <<prompt>>, Raised)>>,
              messages |-> <<St("error", "Gemini AI Error: ", <<"e">>)>>]
        ELSE [ret      |-> Str(strip(outcome.text)),
              calls    |-> <<Call("generate_content", <<prompt>>,
                                  Str(outcome.text))>>,
              messages |-> <<>>]

\* python truth value of gemini_result: None and "" are false
Truthy(x) == x.kind = "str" /\ x.chars # <<>>

----------------------------------------------------------------------------
(* The script *)

\* Startup without st.stop()
StartupNoStop(key) ==
    IF ~key
    THEN [stopped  |-> FALSE,
          messages |-> <<St("error",
                            "API key not found. Please check your .env file.",
                            <<>>)>>]
    ELSE [stopped |-> FALSE, messages |-> <<>>]

\* lines 11-17
Startup(key) ==
    IF ~key
    THEN [stopped  |-> TRUE,
          messages |-> <<St("error",
                            "API key not found. Please check your .env file.",
                            <<>>)>>]
    ELSE [stopped |-> FALSE, messages |-> <<>>]

\* DifferentUnits without the comparison
AnyUnits(f, t) == TRUE

\* line 133: from_unit != to_unit
DifferentUnits(f, t) == f # t

\* Hit as the truth value of manual_result: None and 0.0 are false
HitTruthy(manual_result) == manual_result # None /\ manual_result.n # 0

\* line 135: manual_result is not None
Hit(manual_result) == manual_result # None

\* lines 133-145, the body of `if st.button(...)`
Handler(value, f, t, outcome) ==
    IF DifferentUnits(f, t)
    THEN LET manual_result == manual_conversion(value, f, t)
             c1 == <<Call("manual_conversion", <<value, f, t>>, manual_result)>>
         IN  IF Hit(manual_result)
             THEN [calls    |-> c1,
                   messages |-> <<St("success", "Manual Conversion: ",
                                     <<Format2f(manual_result), t>>)>>]
             ELSE LET g == gemini_conversion(value, f, t, outcome)
                      gemini_result == g.ret
                      c2 == <<Call("gemini_conversion", <<value, f, t>>,
                                   gemini_result)>>
                      m1 == <<St("warning",
                                 "Manual conversion not available. Using Gemini AI...",
                                 <<>>)>>
                  IN  [calls    |-> c1 \o c2 \o g.calls,
                       messages |->
                          m1 \o g.messages \o
                          IF Truthy(gemini_result)
                          THEN <<St("success", "Gemini AI Conversion: ",
                                    <<gemini_result.chars, t>>)>>
                          ELSE <<St("error",
                                    "Conversion failed. Please try again.",
                                    <<>>)>>]
    ELSE [calls    |-> <<>>,
          messages |-> <<St("warning", "Please select different units.", <<>>)>>]

\* one execution of the script with the widgets' new values
Script(clicked, outcome, type, value, f, t) ==
    LET s == Startup(api_key)
    IN  /\ unit_type' = type
        /\ input_value' = value
        /\ from_unit' = f
        /\ to_unit' = t
        /\ button' = clicked
        /\ IF s.stopped
           THEN /\ pc' = "stopped"
                /\ calls' = <<>>
                /\ messages' = s.messages
           ELSE LET h == IF clicked THEN Handler(value, f, t, outcome)
                                    ELSE [calls |-> <<>>, messages |-> <<>>]
                IN  /\ pc' = "rendered"
                    /\ calls' = h.calls
                    /\ messages' = s.messages \o h.messages

NoOutcome == [fault |-> TRUE]

----------------------------------------------------------------------------
(* Actions *)

Init ==
    /\ api_key \in BOOLEAN
    /\ pc = "start"
    /\ unit_type = UnitTypes[1]
    /\ input_value = Num(0)
    /\ from_unit = conversion_units[UnitTypes[1]][1]
    /\ to_unit = conversion_units[UnitTypes[1]][1]
    /\ conversion_factors = ConversionFactors
    /\ button = FALSE
    /\ calls = <<>>
    /\ messages = <<>>

\* the page is opened: first execution, widgets at their defaults
LoadPage ==
    /\ pc = "start"
    /\ Script(FALSE, NoOutcome, unit_type, input_value, from_unit, to_unit)
    /\ UNCHANGED <<api_key, conversion_factors>>

\* line 41; lines 56-57 then show the new type's units, first one selected
SelectUnitType ==
    /\ pc = "rendered"
    /\ \E type \in DOMAIN conversion_units :
          /\ type # unit_type
          /\ Script(FALSE, NoOutcome, type, input_value,
                    conversion_units[type][1], conversion_units[type][1])
    /\ UNCHANGED <<api_key, conversion_factors>>

\* line 42
EnterValue ==
    /\ pc = "rendered"
    /\ \E value \in Values :
          /\ value # input_value
          /\ Script(FALSE, NoOutcome, unit_type, value, from_unit, to_unit)
    /\ UNCHANGED <<api_key, conversion_factors>>

\* line 56
SelectFrom ==
    /\ pc = "rendered"
    /\ \E f \in UnitsOf(unit_type) :
          /\ f # from_unit
          /\ Script(FALSE, NoOutcome, unit_type, input_value, f, to_unit)
    /\ UNCHANGED <<api_key, conversion_factors>>

\* line 57
SelectTo ==
    /\ pc = "rendered"
    /\ \E t \in UnitsOf(unit_type) :
          /\ t # to_unit
          /\ Script(FALSE, NoOutcome, unit_type, input_value, from_unit, t)
    /\ UNCHANGED <<api_key, conversion_factors>>

\* Convert that stores a rule for the pair the fallback answered
ConvertMemo ==
    /\ pc = "rendered"
    /\ \E outcome \in RemoteOutcomes :
          Script(TRUE, outcome, unit_type, input_value, from_unit, to_unit)
    /\ conversion_factors' =
          IF /\ from_unit # to_unit
             /\ Key(from_unit, to_unit) \notin DOMAIN conversion_factors
          THEN (Key(from_unit, to_unit) :> Num(1)) @@ conversion_factors
          ELSE conversion_factors
    /\ UNCHANGED api_key

\* line 132: the button is clicked
Convert ==
    /\ pc = "rendered"
    /\ \E outcome \in RemoteOutcomes :
          Script(TRUE, outcome, unit_type, input_value, from_unit, to_unit)
    /\ UNCHANGED <<api_key, conversion_factors>>

Next ==
    \/ LoadPage
    \/ SelectUnitType
    \/ EnterValue
    \/ SelectFrom
    \/ SelectTo
    \/ Convert

Spec == Init /\ [][Next]_vars

----------------------------------------------------------------------------
(* Properties *)

\* the last execution ran the Convert handler
Converted == pc = "rendered" /\ button

InTable(f, t) == Key(f, t) \in DOMAIN ConversionFactors

CallsTo(fn) == Cardinality({i \in DOMAIN calls : calls[i].fn = fn})

IsManualCall(i) == calls[i].fn = "manual_conversion"

IsRemoteCall(i) == calls[i].fn = "generate_content"

MissWarning ==
    St("warning", "Manual conversion not available. Using Gemini AI...", <<>>)

GeminiError == St("error", "Gemini AI Error: ", <<"e">>)

FailureNotice == St("error", "Conversion failed. Please try again.", <<>>)

SameUnitWarning == St("warning", "Please select different units.", <<>>)

KeyError ==
    St("error", "API key not found. Please check your .env file.", <<>>)

IsTableHit(m) == m.level = "success" /\ m.text = "Manual Conversion: "

IsFallbackHit(m) == m.level = "success" /\ m.text = "Gemini AI Conversion: "

IsTerminal(m) ==
    IsTableHit(m) \/ IsFallbackHit(m) \/ m = FailureNotice \/ m = SameUnitWarning

LastMessage == messages[Len(messages)]

\* C1: a Convert with different units consults the table first, exactly once,
\* with the widgets' values; gemini_conversion is called once when the table
\* lacks the ordered pair and not at all when it has it, whatever the value
\* and the table's result (0 included); the prompt of the remote call holds
\* the value, the from unit and the to unit.
C1_TableFirstThenFallbackOnce ==
    (Converted /\ from_unit # to_unit) =>
        /\ calls # <<>>
        /\ IsManualCall(1)
        /\ calls[1].args = <<input_value, from_unit, to_unit>>
        /\ CallsTo("manual_conversion") = 1
        /\ CallsTo("gemini_conversion") =
              IF InTable(from_unit, to_unit) THEN 0 ELSE 1
        /\ InTable(from_unit, to_unit) => CallsTo("generate_content") = 0
        /\ ~InTable(from_unit, to_unit) =>
              /\ calls[2].fn = "gemini_conversion"
              /\ calls[2].args = <<input_value, from_unit, to_unit>>
              /\ CallsTo("generate_content") = 1
              /\ IsRemoteCall(3)
              /\ LET prompt == calls[3].args[1]
                 IN  /\ \E i \in DOMAIN prompt : prompt[i] = input_value
                     /\ \E i \in DOMAIN prompt : prompt[i] = Part(from_unit)
                     /\ \E i \in DOMAIN prompt : prompt[i] = Part(to_unit)

\* a table hit whose result is 0: the fallback was not called
C1_Witness ==
    /\ Converted
    /\ from_unit # to_unit
    /\ InTable(from_unit, to_unit)
    /\ input_value = Num(0)
    /\ calls = <<Call("manual_conversion", <<Num(0), from_unit, to_unit>>, Num(0))>>

\* C2: a Convert with equal units only warns: no call of manual_conversion or
\* gemini_conversion, no other message; manual_conversion is never called
\* with equal units.
C2_SameUnitsOnlyWarn ==
    /\ (Converted /\ from_unit = to_unit) =>
          /\ calls = <<>>
          /\ messages = <<SameUnitWarning>>
    /\ \A i \in DOMAIN calls :
          IsManualCall(i) => calls[i].args[2] # calls[i].args[3]

C2_Witness ==
    /\ Converted
    /\ from_unit = to_unit
    /\ messages = <<SameUnitWarning>>

\* C3: when the remote call raises, the error is reported first,
\* gemini_conversion returns None, the failure notice ends the action, no
\* success is shown and the remote call was made once.
C3_FaultEndsInFailure ==
    (Converted /\ \E i \in DOMAIN calls : IsRemoteCall(i) /\ calls[i].ret = Raised) =>
        /\ messages = <<MissWarning, GeminiError, FailureNotice>>
        /\ \A i \in DOMAIN calls :
              calls[i].fn = "gemini_conversion" => calls[i].ret = None
        /\ CallsTo("gemini_conversion") = 1
        /\ CallsTo("generate_content") = 1

C3_Witness ==
    /\ Converted
    /\ Len(calls) = 3
    /\ calls[3].fn = "generate_content"
    /\ calls[3].ret = Raised
    /\ LastMessage = FailureNotice

\* C4: when the remote call returns a text, gemini_conversion returns the
\* trimmed text and the action shows it as a fallback hit, "<text> <to unit>",
\* whatever the text.
C4_ReturnedTextIsFallbackHit ==
    \A i \in DOMAIN calls :
        (Converted /\ IsRemoteCall(i) /\ calls[i].ret # Raised) =>
            /\ calls[2].ret = Str(strip(calls[i].ret.chars))
            /\ LastMessage =
                  St("success", "Gemini AI Conversion: ",
                     <<strip(calls[i].ret.chars), to_unit>>)

\* C5: without the credential the script reports the error and stops; no
\* execution calls manual_conversion or gemini_conversion.
C5_NoCredentialNoConversion ==
    ~api_key =>
        /\ calls = <<>>
        /\ ~Converted
        /\ pc \in {"start", "stopped"}
        /\ pc = "stopped" => messages = <<KeyError>>

C5_Witness == ~api_key /\ pc = "stopped" /\ messages = <<KeyError>>

\* C6: manual_conversion returns a number exactly when the dictionary has the
\* ordered pair, whatever the value; Feet to Yards is None.
C6_NumberIffDirectEntry ==
    \A i \in DOMAIN calls :
        IsManualCall(i) =>
            /\ calls[i].ret.kind = "float" <=>
                  InTable(calls[i].args[2], calls[i].args[3])
            /\ calls[i].ret # None <=>
                  InTable(calls[i].args[2], calls[i].args[3])
            /\ (calls[i].args[2] = "Feet" /\ calls[i].args[3] = "Yards") =>
                  calls[i].ret = None

C6_Witness ==
    /\ Converted
    /\ calls # <<>>
    /\ calls[1] = Call("manual_conversion", <<Num(100), "Feet", "Yards">>, None)

\* C7: for a pair with scalar factors in both directions, converting the
\* result back gives the value again, and the two factors multiply to 1.
C7_RoundTrip ==
    \A i \in DOMAIN calls :
        LET value == calls[i].args[1]
            a == calls[i].args[2]
            b == calls[i].args[3]
        IN  ( /\ IsManualCall(i)
              /\ InTable(a, b)
              /\ InTable(b, a)
              /\ ~callable(ConversionFactors[Key(a, b)])
              /\ ~callable(ConversionFactors[Key(b, a)]) ) =>
                /\ manual_conversion(calls[i].ret, b, a) = value
                /\ Mul(ConversionFactors[Key(a, b)], ConversionFactors[Key(b, a)])
                      = Num(1)

C7_Witness ==
    /\ Converted
    /\ calls = <<Call("manual_conversion", <<Num(1), "Meters", "Kilometers">>,
                      Dec(1, 1000))>>
    /\ manual_conversion(Dec(1, 1000), "Kilometers", "Meters") = Num(1)

\* C8: the temperature rules are applied to the value: 0 C is 32 F, 100 C is
\* 212 F and 0 C is 273.15 K.
C8_TemperatureRulesApplied ==
    \A i \in DOMAIN calls :
        IsManualCall(i) =>
            /\ calls[i].args = <<Num(0), "Celsius", "Fahrenheit">> =>
                  calls[i].ret = Num(32)
            /\ calls[i].args = <<Num(100), "Celsius", "Fahrenheit">> =>
                  calls[i].ret = Num(212)
            /\ calls[i].args = <<Num(0), "Celsius", "Kelvin">> =>
                  calls[i].ret = Dec(27315, 100)

C8_Witness ==
    /\ Converted
    /\ calls = <<Call("manual_conversion", <<Num(100), "Celsius", "Fahrenheit">>,
                      Num(212))>>

\* C9: the dictionary is the one of startup after every action, and every
\* call of manual_conversion returns what the startup dictionary gives for
\* its arguments.
C9_TableNeverChanges ==
    /\ conversion_factors = ConversionFactors
    /\ \A i \in DOMAIN calls :
          IsManualCall(i) =>
              calls[i].ret =
                  Lookup(ConversionFactors, calls[i].args[1], calls[i].args[2],
                         calls[i].args[3])

\* after a fallback success the dictionary still lacks the pair
C9_Witness ==
    /\ Converted
    /\ messages # <<>>
    /\ IsFallbackHit(LastMessage)
    /\ Key(from_unit, to_unit) \notin DOMAIN conversion_factors

\* C10: a Convert ends in exactly one of table hit, fallback hit, failure
\* notice and same-unit warning; a table hit only with the pair in the table,
\* a fallback hit only after a miss and a returned text, a failure notice only
\* after a miss.
C10_OneTerminalOutcome ==
    Converted =>
        /\ messages # <<>>
        /\ IsTerminal(LastMessage)
        /\ Cardinality({i \in DOMAIN messages : IsTerminal(messages[i])}) = 1
        /\ IsTableHit(LastMessage) =>
              from_unit # to_unit /\ InTable(from_unit, to_unit)
        /\ IsFallbackHit(LastMessage) =>
              /\ from_unit # to_unit
              /\ ~InTable(from_unit, to_unit)
              /\ \E i \in DOMAIN calls :
                    IsRemoteCall(i) /\ calls[i].ret.kind = "str"
        /\ LastMessage = FailureNotice =>
              from_unit # to_unit /\ ~InTable(from_unit, to_unit)
        /\ LastMessage = SameUnitWarning => from_unit = to_unit

\* the remote call returned only whitespace and the action ended in failure
C10_Witness ==
    /\ Converted
    /\ Len(calls) = 3
    /\ calls[3].ret = Str(<<" ">>)
    /\ LastMessage = FailureNotice

====
